---- MODULE Spec2Model ----
(***************************************************************************)
(* Dispatch core of the vertical solar tower simulator: the battery scan,  *)
(* the smart-grid pass, the monthly raw output assembler and the stage     *)
(* gating of the two application scripts (app.py and app2.py).             *)
(*                                                                         *)
(* Quantities (kW, kWh, efficiencies) are exact rationals <<n, d>> with    *)
(* d > 0 in lowest terms; the arithmetic is the arithmetic of the source   *)
(* without floating-point rounding.                                        *)
(***************************************************************************)
EXTENDS Integers, Sequences, FiniteSets, TLC

\* ------------------------------------------------------------------ bounds
GridLen == 2       \* steps of the column passed through the grid stage
GridPasses == 2    \* successive applications of the grid stage
AppLen == 1        \* steps of the one-column tables of the application runs
MaxLen == 4        \* steps of the single column scanned under Spec
TableMonths == 2   \* columns of the table scanned under SpecMonths
ColLen == 2        \* steps per column under SpecMonths

\* ------------------------------------------------- rational arithmetic
RECURSIVE GCD(_, _)
GCD(a, b) == IF b = 0 THEN a ELSE GCD(b, a % b)

Abs(n) == IF n < 0 THEN 0 - n ELSE n

Rat(n, d) ==
    LET g == GCD(Abs(n), d)
    IN  <<n \div g, d \div g>>

RAdd(a, b) == Rat(a[1] * b[2] + b[1] * a[2], a[2] * b[2])
RSub(a, b) == Rat(a[1] * b[2] - b[1] * a[2], a[2] * b[2])
RMul(a, b) == Rat(a[1] * b[1], a[2] * b[2])
RDiv(a, b) == Rat(a[1] * b[2], a[2] * b[1])      \* b > 0
RLt(a, b) == a[1] * b[2] < b[1] * a[2]
RLe(a, b) == a[1] * b[2] <= b[1] * a[2]
RMin(a, b) == IF RLt(b, a) THEN b ELSE a
RMax(a, b) == IF RLt(a, b) THEN b ELSE a

Zero == <<0, 1>>

\* -------------------------------------------------- program constants
REFERENCE_LOAD_KWH == <<1, 2>>            \* the literal 0.5 of the scan
STEP_HOURS == <<1, 2>>                    \* step_hours=0.5 / literal 0.5
LOAD_KW == <<1, 1>>                       \* load_kw = 1.0
BATTERY_CAPACITY_KWH == <<10, 1>>
BATTERY_CHARGE_EFFICIENCY == <<19, 20>>
BATTERY_DISCHARGE_EFFICIENCY == <<19, 20>>
GRID_SUPPORT_LIMIT_KW == <<2, 1>>
APP_EFFICIENCY == <<19, 20>>              \* the literal 0.95 of app.py
NumCalendarMonths == 12

\* ------------------------------------------------ the battery step
\* the step energy taken to be the power itself
StepEnergy_NoStepHours(power) == power

\* energy = power * step_hours
StepEnergy(power) == RMul(power, STEP_HOURS)

\* the excess taken without subtracting the load
ExcessEnergy_NoLoad(e) == RMax(Zero, e)

\* excess_energy = max(0, energy - 0.5)
ExcessEnergy(e) == RMax(Zero, RSub(e, REFERENCE_LOAD_KWH))

\* the charge without the headroom clamp
ChargeAmount_NoHeadroom(e, s, cap, ceff) == RMul(ExcessEnergy(e), ceff)

\* charge = min(excess_energy * charge_eff, capacity_kwh - soc)
ChargeAmount(e, s, cap, ceff) ==
    RMin(RMul(ExcessEnergy(e), ceff), RSub(cap, s))

\* app2.py charges only when energy > 0; app.py evaluates the charge always
Charged(v, e, s, cap, ceff) ==
    IF v = "app2" /\ ~RLt(Zero, e) THEN Zero ELSE ChargeAmount(e, s, cap, ceff)

\* net_energy = energy - charge
NetAfterCharge(e, c) == RSub(e, c)

\* the discharge without the clamp against the stored energy
DischargeAmount_NoSocClamp(net, s, deff) ==
    IF RLt(net, REFERENCE_LOAD_KWH)
    THEN RDiv(RSub(REFERENCE_LOAD_KWH, net), deff)
    ELSE Zero

\* if net_energy < 0.5: discharge = min(needed / discharge_eff, soc)
DischargeAmount(net, s, deff) ==
    IF RLt(net, REFERENCE_LOAD_KWH)
    THEN RMin(RDiv(RSub(REFERENCE_LOAD_KWH, net), deff), s)
    ELSE Zero

\* the discharge efficiency applied the wrong way round
NetAfterDischarge_Gain(net, d, deff) == RAdd(net, RDiv(d, deff))

\* net_energy += discharge * discharge_eff
NetAfterDischarge(net, d, deff) == RAdd(net, RMul(d, deff))

\* adjusted_output.append(net_energy / step_hours)
ToPower(net) == RDiv(net, STEP_HOURS)

\* soc initialised once, outside the loop over months
MonthStartSoc_Carry(prev) == prev

\* soc = 0.0 at the head of every month's scan
MonthStartSoc(prev) == Zero

\* one whole step of the scan: <<soc after the step, adjusted power>>
BatteryStep(v, power, s, cap, ceff, deff) ==
    LET e == StepEnergy(power)
        c == Charged(v, e, s, cap, ceff)
        n == NetAfterCharge(e, c)
        d == DischargeAmount(n, RAdd(s, c), deff)
    IN  <<RSub(RAdd(s, c), d), ToPower(NetAfterDischarge(n, d, deff))>>

RECURSIVE ScanColumn(_, _, _, _, _, _)
ScanColumn(v, col, s, cap, ceff, deff) ==
    IF col = <<>> THEN <<>>
    ELSE LET r == BatteryStep(v, Head(col), s, cap, ceff, deff)
         IN  <<r[2]>> \o ScanColumn(v, Tail(col), r[1], cap, ceff, deff)

\* simulate_battery as a function of the whole table
simulate_battery(v, table, cap, ceff, deff) ==
    [m \in DOMAIN table |->
        ScanColumn(v, table[m], MonthStartSoc(Zero), cap, ceff, deff)]

\* ------------------------------------------------ the grid step
\* the whole deficit imported, the limit forgotten
GridSupport_IgnoreLimit(power_kw, limit) == RSub(LOAD_KW, power_kw)

\* support = min(grid_limit_kw, load_kw - power_kw)
GridSupport(power_kw, limit) == RMin(limit, RSub(LOAD_KW, power_kw))

GridStep(power_kw, limit) ==
    IF RLt(power_kw, LOAD_KW)
    THEN RAdd(power_kw, GridSupport(power_kw, limit))
    ELSE power_kw

simulate_smart_grid(table, limit) ==
    [m \in DOMAIN table |->
        [i \in DOMAIN table[m] |-> GridStep(table[m][i], limit)]]

\* ------------------------------------------------ input domains
Powers == {<<0, 1>>, <<1, 2>>, <<1, 1>>, <<2, 1>>, <<3, 1>>}        \* kW
Capacities == {<<0, 1>>, <<1, 2>>, <<1, 1>>}                          \* kWh
Efficiencies == {<<19, 20>>, <<1, 1>>}
GridPowers == {<<0, 1>>, <<1, 2>>, <<4, 5>>, <<1, 1>>, <<6, 5>>}     \* kW
GridLimits == {<<0, 1>>, <<3, 10>>, <<1, 2>>, <<2, 1>>}               \* kW
MonthPowers == {<<0, 1>>, <<3, 1>>}                               \* kW
AppPowers == {<<0, 1>>, <<3, 1>>}
AppCapacities == {<<0, 1>>, <<10, 1>>}
AppLimits == {<<2, 1>>}

Columns(S, n) == [1..n -> S]
Tables(S, months, n) == [1..months -> Columns(S, n)]

None == <<>>
Some(x) == <<x>>

VARIABLES
    \* simulate_battery / the battery loop of app.py
    variant, raw_output, capacity_kwh, charge_eff, discharge_eff,
    month, step, soc, energy, charge, net_energy, discharge,
    adjusted_output, results_battery, pc,
    \* repeated application of simulate_smart_grid
    battery_output, grid_limit_kw, results_grid,
    \* app2.py session state and the widgets of its last run
    session_raw, session_battery, session_grid,
    simulate_battery_flag, simulate_grid_flag, button,
    \* app.py, last run of the script
    battery_enabled, grid_enabled, app_raw, app_battery, app_smart_grid,
    app_capacity, app_limit,
    \* the monthly loop of the raw output assembler
    asm_variant, use_real_weather, asm_month, results_raw,
    monthly_energy_kwh, outcome, propagated

bvars == <<variant, raw_output, capacity_kwh, charge_eff, discharge_eff,
           month, step, soc, energy, charge, net_energy, discharge,
           adjusted_output, results_battery, pc>>
gvars == <<battery_output, grid_limit_kw, results_grid>>
avars == <<session_raw, session_battery, session_grid,
           simulate_battery_flag, simulate_grid_flag, button,
           battery_enabled, grid_enabled, app_raw, app_battery,
           app_smart_grid, app_capacity, app_limit>>
mvars == <<asm_variant, use_real_weather, asm_month, results_raw,
           monthly_energy_kwh, outcome, propagated>>
vars == <<bvars, gvars, avars, mvars>>

\* ------------------------------------------------ idle components
BatteryIdle ==
    /\ variant = "app2" /\ raw_output = <<>>
    /\ capacity_kwh = BATTERY_CAPACITY_KWH
    /\ charge_eff = BATTERY_CHARGE_EFFICIENCY
    /\ discharge_eff = BATTERY_DISCHARGE_EFFICIENCY
    /\ month = 1 /\ step = 1 /\ soc = Zero /\ energy = Zero /\ charge = Zero
    /\ net_energy = Zero /\ discharge = Zero /\ adjusted_output = <<>>
    /\ results_battery = <<>> /\ pc = "done"

GridIdle ==
    /\ battery_output = <<>> /\ grid_limit_kw = GRID_SUPPORT_LIMIT_KW
    /\ results_grid = <<>>

AppIdle ==
    /\ session_raw = None /\ session_battery = None /\ session_grid = None
    /\ simulate_battery_flag = FALSE /\ simulate_grid_flag = FALSE
    /\ button = "none"
    /\ battery_enabled = FALSE /\ grid_enabled = FALSE
    /\ app_raw = None /\ app_battery = None /\ app_smart_grid = None
    /\ app_capacity = BATTERY_CAPACITY_KWH /\ app_limit = GRID_SUPPORT_LIMIT_KW

AsmIdle ==
    /\ asm_variant = "app2" /\ use_real_weather = TRUE
    /\ asm_month = NumCalendarMonths + 1
    /\ results_raw = <<>> /\ monthly_energy_kwh = <<>>
    /\ outcome = "none" /\ propagated = FALSE

\* ------------------------------------------------ the battery scan
\* entry of simulate_battery (app2.py 113-115) / app.py 88-90
BatteryInit(tables) ==
    /\ variant \in {"app", "app2"}
    /\ raw_output \in tables
    /\ capacity_kwh \in Capacities
    /\ charge_eff \in IF variant = "app" THEN {APP_EFFICIENCY} ELSE Efficiencies
    /\ discharge_eff \in IF variant = "app" THEN {APP_EFFICIENCY} ELSE Efficiencies
    /\ month = 1 /\ step = 1 /\ soc = Zero /\ energy = Zero /\ charge = Zero
    /\ net_energy = Zero /\ discharge = Zero /\ adjusted_output = <<>>
    /\ results_battery = raw_output          \* results_battery = raw.copy()
    /\ pc = "month_start"

\* for month in raw_output.columns: soc = 0.0; adjusted_output = []
StartMonth ==
    /\ pc = "month_start"
    /\ soc' = MonthStartSoc(soc)
    /\ adjusted_output' = <<>>
    /\ step' = 1
    /\ pc' = IF Len(raw_output[month]) = 0 THEN "month_end" ELSE "charge"
    /\ UNCHANGED <<variant, raw_output, capacity_kwh, charge_eff,
                   discharge_eff, month, energy, charge, net_energy,
                   discharge, results_battery>>
    /\ UNCHANGED <<gvars, avars, mvars>>

\* energy, excess, charge, soc += charge, net_energy = energy - charge
ChargeStep ==
    /\ pc = "charge"
    /\ LET e == StepEnergy(raw_output[month][step])
           c == Charged(variant, e, soc, capacity_kwh, charge_eff)
       IN  /\ energy' = e
           /\ charge' = c
           /\ soc' = RAdd(soc, c)
           /\ net_energy' = NetAfterCharge(e, c)
    /\ discharge' = Zero
    /\ pc' = "discharge"
    /\ UNCHANGED <<variant, raw_output, capacity_kwh, charge_eff,
                   discharge_eff, month, step, adjusted_output,
                   results_battery>>
    /\ UNCHANGED <<gvars, avars, mvars>>

\* if net_energy < 0.5: discharge; then append net_energy / step_hours
DischargeStep ==
    /\ pc = "discharge"
    /\ LET d == DischargeAmount(net_energy, soc, discharge_eff)
           n == NetAfterDischarge(net_energy, d, discharge_eff)
       IN  /\ discharge' = d
           /\ soc' = RSub(soc, d)
           /\ net_energy' = n
           /\ adjusted_output' = Append(adjusted_output, ToPower(n))
    /\ step' = step + 1
    /\ pc' = IF step = Len(raw_output[month]) THEN "month_end" ELSE "charge"
    /\ UNCHANGED <<variant, raw_output, capacity_kwh, charge_eff,
                   discharge_eff, month, energy, charge, results_battery>>
    /\ UNCHANGED <<gvars, avars, mvars>>

\* results_battery[month] = adjusted_output; next month or return
EndMonth ==
    /\ pc = "month_end"
    /\ results_battery' = [results_battery EXCEPT ![month] = adjusted_output]
    /\ month' = month + 1
    /\ pc' = IF month = Len(raw_output) THEN "done" ELSE "month_start"
    /\ UNCHANGED <<variant, raw_output, capacity_kwh, charge_eff,
                   discharge_eff, step, soc, energy, charge, net_energy,
                   discharge, adjusted_output>>
    /\ UNCHANGED <<gvars, avars, mvars>>

BatteryNext == StartMonth \/ ChargeStep \/ DischargeStep \/ EndMonth

Init == BatteryInit(Tables(Powers, 1, MaxLen)) /\ GridIdle /\ AppIdle /\ AsmIdle
Next == BatteryNext
Spec == Init /\ [][Next]_vars

InitMonths ==
    BatteryInit(Tables(MonthPowers, TableMonths, ColLen)) /\ GridIdle /\ AppIdle /\ AsmIdle
SpecMonths == InitMonths /\ [][Next]_vars

\* ------------------------------------------------ battery properties
\* a step of the scan has just been completed (its locals are still in place)
StepDone == pc \in {"charge", "month_end"} /\ step > 1

\* soc before the charge update of the step whose charge has just run
SocBeforeCharge == RSub(soc, charge)

RECURSIVE SumEnergy(_)
SumEnergy(col) ==
    IF col = <<>> THEN Zero
    ELSE RAdd(StepEnergy(Head(col)), SumEnergy(Tail(col)))

ScannedRaw == SubSeq(raw_output[month], 1, Len(adjusted_output))

\* C1: at every point of the scan of a month column (after the charge
\* update and after the discharge update of every step, from soc = 0) the
\* state of charge satisfies 0 <= soc <= capacity_kwh.
C1_SocBounded == RLe(Zero, soc) /\ RLe(soc, capacity_kwh)

C1_Witness ==
    /\ pc = "discharge"
    /\ RLt(Zero, charge)
    /\ soc = capacity_kwh
    /\ RLt(charge, RMul(ExcessEnergy(energy), charge_eff))

\* C3 (as stated): in a step whose energy exceeds the reference load and
\* whose headroom does not bind, net energy after charging equals the
\* reference load, for every charge efficiency.
C3_NetEqualsLoadAfterCharge ==
    ( /\ pc = "discharge"
      /\ RLt(REFERENCE_LOAD_KWH, energy)
      /\ RLe(RMul(ExcessEnergy(energy), charge_eff),
             RSub(capacity_kwh, SocBeforeCharge)) )
    => net_energy = REFERENCE_LOAD_KWH

\* C4: after any prefix of the scan the battery-adjusted energy summed over
\* the scanned steps is at most the raw energy summed over the same steps.
C4_LossyConservation ==
    pc \in {"charge", "discharge", "month_end"}
    => RLe(SumEnergy(adjusted_output), SumEnergy(ScannedRaw))

C4_Witness ==
    /\ pc = "month_end"
    /\ \A i \in DOMAIN raw_output[month] : raw_output[month][i] = <<2, 1>>
    /\ RLt(SumEnergy(adjusted_output), SumEnergy(ScannedRaw))

\* C5: with capacity_kwh = 0 the battery stage is the identity: every
\* output step equals the input step and soc stays 0 throughout.
C5_ZeroCapacityIdentity ==
    capacity_kwh = Zero
    => /\ soc = Zero
       /\ pc \in {"charge", "discharge", "month_end"}
            => adjusted_output = ScannedRaw
       /\ pc = "done" => results_battery = raw_output

C5_Witness ==
    /\ capacity_kwh = Zero
    /\ pc = "done"
    /\ \E i \in DOMAIN raw_output[1] : raw_output[1][i] = Zero
    /\ \E i \in DOMAIN raw_output[1] : RLt(LOAD_KW, raw_output[1][i])

\* C6: with capacity 1.0 and both efficiencies 1.0, simulate_battery maps
\* the raw series [0, 2, 0, 2] kW to [0, 1, 1, 1] kW and the soc after the
\* four steps is 0, 0.5, 0, 0.5 kWh.
C6_ScenarioRaw == <<Zero, <<2, 1>>, Zero, <<2, 1>>>>
C6_ScenarioOut == <<Zero, <<1, 1>>, <<1, 1>>, <<1, 1>>>>
C6_ScenarioSoc == <<Zero, <<1, 2>>, Zero, <<1, 2>>>>

C6_Scenario ==
    ( /\ variant = "app2"
      /\ capacity_kwh = <<1, 1>>
      /\ charge_eff = <<1, 1>> /\ discharge_eff = <<1, 1>>
      /\ pc \in {"charge", "discharge", "month_end"}
      /\ SubSeq(raw_output[month], 1, 4) = C6_ScenarioRaw )
    => /\ \A i \in 1..4 :
            i <= Len(adjusted_output) => adjusted_output[i] = C6_ScenarioOut[i]
       /\ \A i \in 1..4 :
            (StepDone /\ step = i + 1) => soc = C6_ScenarioSoc[i]

C6_Witness ==
    /\ variant = "app2"
    /\ capacity_kwh = <<1, 1>>
    /\ charge_eff = <<1, 1>> /\ discharge_eff = <<1, 1>>
    /\ SubSeq(raw_output[month], 1, 4) = C6_ScenarioRaw
    /\ StepDone /\ step = 5
    /\ SubSeq(adjusted_output, 1, 4) = C6_ScenarioOut

\* C10: within one battery step charging and discharging are never both
\* non-zero; a step that charges leaves net energy >= the reference load, a
\* step that discharges leaves net energy <= the reference load, and a step
\* whose energy equals the reference load neither charges nor discharges.
C10_ChargeXorDischarge ==
    StepDone
    => /\ ~(RLt(Zero, charge) /\ RLt(Zero, discharge))
       /\ RLt(Zero, charge) => RLe(REFERENCE_LOAD_KWH, net_energy)
       /\ RLt(Zero, discharge) => RLe(net_energy, REFERENCE_LOAD_KWH)
       /\ energy = REFERENCE_LOAD_KWH => (charge = Zero /\ discharge = Zero)

C10_Witness ==
    /\ StepDone
    /\ energy = REFERENCE_LOAD_KWH
    /\ RLt(Zero, soc)
    /\ RLt(soc, capacity_kwh)

\* C9: soc is 0 at the first step of every month column and the adjusted
\* column of month m is the scan of raw column m alone from an empty
\* battery, whatever the other columns contain.
C9_MonthsIndependent ==
    /\ (pc = "charge" /\ step = 1) => soc = Zero
    /\ \A m \in 1..(month - 1) :
          results_battery[m] =
              ScanColumn(variant, raw_output[m], Zero, capacity_kwh,
                         charge_eff, discharge_eff)

C9_Witness ==
    /\ pc = "done"
    /\ Len(raw_output) >= 2
    /\ results_battery[1] # raw_output[1]
    /\ results_battery[2] # raw_output[2]
    /\ raw_output[1] # raw_output[2]

\* ------------------------------------------------ repeated grid passes
GridInit ==
    /\ battery_output \in Tables(GridPowers, 1, GridLen)
    /\ grid_limit_kw \in GridLimits
    /\ results_grid = <<>>

\* results_grid = simulate_smart_grid(<previous output, or the input>, limit)
GridPass ==
    /\ Len(results_grid) < GridPasses
    /\ LET input == IF results_grid = <<>> THEN battery_output
                    ELSE results_grid[Len(results_grid)]
       IN  results_grid' =
               Append(results_grid, simulate_smart_grid(input, grid_limit_kw))
    /\ UNCHANGED <<battery_output, grid_limit_kw>>
    /\ UNCHANGED <<bvars, avars, mvars>>

NextGrid == GridPass
InitGridSpec == BatteryIdle /\ GridInit /\ AppIdle /\ AsmIdle
SpecGrid == InitGridSpec /\ [][NextGrid]_vars

\* C2 (as stated): applying the grid stage to its own output yields exactly
\* that output again.
C2_GridIdempotent ==
    Len(results_grid) >= 2 => results_grid[2] = results_grid[1]

\* C2 (amended): the second pass leaves a step unchanged when the limit
\* covers its deficit (power + limit >= load_kw, which includes power >=
\* load_kw) or the limit is 0, and raises it again when
\* 0 < limit < load_kw - power.
C2_GridFixedPoints ==
    Len(results_grid) >= 2 =>
        \A m \in DOMAIN battery_output : \A i \in DOMAIN battery_output[m] :
            LET p  == battery_output[m][i]
                o1 == results_grid[1][m][i]
                o2 == results_grid[2][m][i]
                covered == RLe(LOAD_KW, RAdd(p, grid_limit_kw))
            IN  /\ (covered \/ grid_limit_kw = Zero) => o2 = o1
                /\ (~covered /\ RLt(Zero, grid_limit_kw)) => RLt(o1, o2)

C2_Witness ==
    /\ Len(results_grid) >= 2
    /\ \E i \in DOMAIN battery_output[1] :
          /\ RLt(battery_output[1][i], LOAD_KW)
          /\ results_grid[1][1][i] = LOAD_KW
          /\ results_grid[2][1][i] = LOAD_KW
    /\ \E i \in DOMAIN battery_output[1] :
          RLt(results_grid[1][1][i], results_grid[2][1][i])

\* ------------------------------------------------ the application runs
\* one run of the app2.py script (lines 195-258) on the session state
App2Rerun(bf, gf, btn, fresh) ==
    LET raw1 == IF session_raw = None THEN Some(fresh) ELSE session_raw
        raw2 == IF btn = "raw" THEN Some(fresh) ELSE raw1
        bat  == IF bf /\ btn = "battery"
                THEN Some(simulate_battery("app2", raw2[1],
                              BATTERY_CAPACITY_KWH, BATTERY_CHARGE_EFFICIENCY,
                              BATTERY_DISCHARGE_EFFICIENCY))
                ELSE session_battery
        grid == IF gf /\ bat # None /\ btn = "battery"
                THEN Some(simulate_smart_grid(bat[1], GRID_SUPPORT_LIMIT_KW))
                ELSE session_grid
    IN  /\ session_raw' = raw2
        /\ session_battery' = bat
        /\ session_grid' = grid
        /\ simulate_battery_flag' = bf
        /\ simulate_grid_flag' = gf
        /\ button' = btn
        /\ UNCHANGED <<battery_enabled, grid_enabled, app_raw, app_battery,
                       app_smart_grid, app_capacity, app_limit>>
        /\ UNCHANGED <<bvars, gvars, mvars>>

\* one run of the app.py script (lines 67-124)
AppRun(be, cap, ge, lim, fresh) ==
    LET bat  == IF be
                THEN Some(simulate_battery("app", fresh, cap,
                              APP_EFFICIENCY, APP_EFFICIENCY))
                ELSE None
        base == IF bat # None THEN bat[1] ELSE fresh
        grid == IF ge THEN Some(simulate_smart_grid(base, lim)) ELSE None
    IN  /\ app_raw' = Some(fresh)
        /\ app_battery' = bat
        /\ app_smart_grid' = grid
        /\ battery_enabled' = be
        /\ grid_enabled' = ge
        /\ app_capacity' = cap
        /\ app_limit' = lim
        /\ UNCHANGED <<session_raw, session_battery, session_grid,
                       simulate_battery_flag, simulate_grid_flag, button>>
        /\ UNCHANGED <<bvars, gvars, mvars>>

App2Run ==
    \E bf \in BOOLEAN, gf \in BOOLEAN, btn \in {"none", "raw", "battery"},
       fresh \in Tables(AppPowers, 1, AppLen) :
        App2Rerun(bf, gf, btn, fresh)

App1Run ==
    \E be \in BOOLEAN, ge \in BOOLEAN, cap \in AppCapacities,
       lim \in AppLimits, fresh \in Tables(AppPowers, 1, AppLen) :
        AppRun(be, cap, ge, lim, fresh)

NextApp == App2Run \/ App1Run
InitApp == BatteryIdle /\ GridIdle /\ AppIdle /\ AsmIdle
SpecApp == InitApp /\ [][NextApp]_vars

\* C7 (as stated): whenever a run is triggered with grid support enabled, a
\* grid-adjusted table is produced; with the battery stage skipped it is
\* computed from the raw table, with both enabled from the battery-adjusted
\* table of the current raw table.
C7_GridStageBypassesBattery ==
    /\ (app_raw # None /\ grid_enabled) =>
          app_smart_grid =
              Some(simulate_smart_grid(
                      IF battery_enabled
                      THEN simulate_battery("app", app_raw[1], app_capacity,
                                            APP_EFFICIENCY, APP_EFFICIENCY)
                      ELSE app_raw[1],
                      app_limit))
    /\ (button = "battery" /\ simulate_grid_flag) =>
          session_grid =
              Some(simulate_smart_grid(
                      IF simulate_battery_flag
                      THEN simulate_battery("app2", session_raw[1],
                               BATTERY_CAPACITY_KWH, BATTERY_CHARGE_EFFICIENCY,
                               BATTERY_DISCHARGE_EFFICIENCY)
                      ELSE session_raw[1],
                      GRID_SUPPORT_LIMIT_KW))

\* ------------------------------------------------ the raw output assembler
Failures == {"fetch_error", "index_error"}

\* only the fetch is guarded, the indexing by the time index is not
CaughtLocally_FetchOnly(o) == o # "index_error"

\* the try block spans the fetch and weather.loc[times]; except catches both
CaughtLocally(o) == TRUE

WeatherUsed(o) == IF o = "ok" THEN "tmy" ELSE "clearsky"

AsmInit ==
    /\ asm_variant \in {"app", "app2"}
    /\ use_real_weather \in IF asm_variant = "app" THEN {TRUE} ELSE BOOLEAN
    /\ asm_month = 1
    /\ results_raw = <<>> /\ monthly_energy_kwh = <<>>
    /\ outcome = "none" /\ propagated = FALSE

\* one iteration of the loop over range(1, 13) with retrieval outcome o
AssembleMonth(o) ==
    /\ asm_month <= NumCalendarMonths
    /\ ~propagated
    /\ outcome' = o
    /\ IF CaughtLocally(o)
       THEN /\ results_raw' =
                  Append(results_raw,
                         [name |-> asm_month, weather |-> WeatherUsed(o)])
            /\ monthly_energy_kwh' =
                  Append(monthly_energy_kwh,
                         [name |-> asm_month, weather |-> WeatherUsed(o)])
            /\ asm_month' = asm_month + 1
            /\ UNCHANGED propagated
       ELSE /\ propagated' = TRUE
            /\ UNCHANGED <<results_raw, monthly_energy_kwh, asm_month>>
    /\ UNCHANGED <<asm_variant, use_real_weather>>
    /\ UNCHANGED <<bvars, gvars, avars>>

MonthRetrieved == use_real_weather /\ AssembleMonth("ok")
MonthFallback == use_real_weather /\ \E o \in Failures : AssembleMonth(o)
MonthClearSky == ~use_real_weather /\ AssembleMonth("not_requested")

NextAsm == MonthRetrieved \/ MonthFallback \/ MonthClearSky
InitAsm == BatteryIdle /\ GridIdle /\ AppIdle /\ AsmInit
SpecAsm == InitAsm /\ [][NextAsm]_vars

\* C8: whether the retrieval of a month succeeds or fails, the month's
\* column and energy are recorded (clear-sky on failure), no failure
\* propagates, and a completed run has exactly 12 columns in the order 1..12.
C8_FallbackKeepsTwelveColumns ==
    /\ ~propagated
    /\ Len(results_raw) = asm_month - 1
    /\ Len(monthly_energy_kwh) = asm_month - 1
    /\ \A i \in DOMAIN results_raw :
          results_raw[i].name = i /\ monthly_energy_kwh[i] = results_raw[i]
    /\ outcome \in Failures =>
          results_raw[Len(results_raw)].weather = "clearsky"
    /\ asm_month = NumCalendarMonths + 1 =>
          Len(results_raw) = NumCalendarMonths

C8_Witness ==
    /\ asm_month = NumCalendarMonths + 1
    /\ outcome = "index_error"
    /\ results_raw[NumCalendarMonths].weather = "clearsky"
    /\ \E i \in DOMAIN results_raw : results_raw[i].weather = "tmy"

====
